---- MODULE Spec2Model ----
(***************************************************************************)
(* A model of sphinx_click (src/sphinx_click/__init__.py): the line        *)
(* formatters, the command filter, the command assembler and the click     *)
(* directive with its purge registry.                                      *)
(*                                                                         *)
(* Text.  A Python string is a sequence of atoms.  An atom is either one   *)
(* character that the code inspects (" ", ",", the newline "\\n", the      *)
(* backspace "\\x08", a bracket ...) or an indivisible run of other        *)
(* characters ("a", "--", "h1", ".. rubric:: ").  Concatenation, split,    *)
(* strip, join and replace work on the atoms as the Python operations      *)
(* work on characters.  A produced line is such a string; the fixed        *)
(* markup a formatter writes (".. option:: ", "    ") is an atom of its    *)
(* own, and the help texts the model feeds in contain no markup atoms.     *)
(* The backquote is written \\x60.                                          *)
(***************************************************************************)
EXTENDS Integers, Sequences, FiniteSets, TLC

\* ---------------------------------------------------------------- bounds
MaxParams == 2
MaxFilterLen == 4
MaxRuns == 2
MaxHelpLen == 6
MaxBuilds == 2

\* ------------------------------------------------------- Python built-ins
\* Python's None, where a string (or an enum member) may stand instead.
None == <<"<None>">>

\* bool(x) of an optional string: None and "" are falsy.
Truthy(s) == s # None /\ s # <<>>

Whitespace == {" ", "\\t", "\\n", "\\v", "\\f"}

\* Code points of the atoms that sub-command names are compared by.
Ord(a) ==
  CASE a = " " -> 32
    [] a = "," -> 44
    [] a = "-" -> 45
    [] a = "a" -> 97
    [] a = "b" -> 98
    [] a = "c" -> 99
    [] OTHER -> 128

\* s < t for Python strings: lexicographic by code point.
RECURSIVE StrLess(_, _)
StrLess(s, t) ==
  IF t = <<>> THEN FALSE
  ELSE IF s = <<>> THEN TRUE
  ELSE IF Ord(Head(s)) # Ord(Head(t)) THEN Ord(Head(s)) < Ord(Head(t))
  ELSE StrLess(Tail(s), Tail(t))

\* s.split(sep): the pieces between the occurrences of sep (never empty).
split(s, sep) ==
  LET RECURSIVE go(_, _, _)
      go(i, cur, acc) ==
        IF i > Len(s) THEN Append(acc, cur)
        ELSE IF s[i] = sep THEN go(i + 1, <<>>, Append(acc, cur))
        ELSE go(i + 1, Append(cur, s[i]), acc)
  IN go(1, <<>>, <<>>)

\* s.lstrip(chars) and s.rstrip(chars)
RECURSIVE lstrip(_, _)
lstrip(s, chars) ==
  IF s # <<>> /\ Head(s) \in chars THEN lstrip(Tail(s), chars) ELSE s

RECURSIVE rstrip(_, _)
rstrip(s, chars) ==
  IF s # <<>> /\ s[Len(s)] \in chars
  THEN rstrip(SubSeq(s, 1, Len(s) - 1), chars) ELSE s

\* s.strip()
strip(s) == rstrip(lstrip(s, Whitespace), Whitespace)

\* s.isspace(): non-empty and nothing but whitespace.
isspace(s) == s # <<>> /\ \A i \in 1..Len(s) : s[i] \in Whitespace

\* sep.join(parts)
RECURSIVE join(_, _)
join(parts, sep) ==
  IF parts = <<>> THEN <<>>
  ELSE IF Len(parts) = 1 THEN parts[1]
  ELSE parts[1] \o sep \o join(Tail(parts), sep)

\* s.replace(old, new) for single atoms
replace(s, old, new) == [i \in 1..Len(s) |-> IF s[i] = old THEN new ELSE s[i]]

\* The concatenation of a sequence of sequences.
RECURSIVE Flatten(_)
Flatten(ss) == IF ss = <<>> THEN <<>> ELSE Head(ss) \o Flatten(Tail(ss))

\* docutils' statemachine.string2lines(s, tab_width=4, convert_whitespace=True):
\* \v and \f become spaces, the string is cut with str.splitlines() (a final
\* newline opens no further line), each line loses its trailing whitespace.
string2lines(s) ==
  LET conv == [i \in 1..Len(s) |-> IF s[i] \in {"\\v", "\\f"} THEN " " ELSE s[i]]
      parts == split(conv, "\\n")
      cut == IF parts[Len(parts)] = <<>> THEN SubSeq(parts, 1, Len(parts) - 1)
             ELSE parts
  IN [i \in 1..Len(cut) |-> rstrip(cut[i], Whitespace)]

\* _indent(text) on one line: four spaces in front unless the line is
\* whitespace only.
_indent(line) == IF isspace(line) THEN line ELSE <<"    ">> \o line

Blank == <<>>


\* ------------------------------------------------------------ click model
\* A parameter's default value: its Python type and its text.  For a list
\* v holds the elements' texts, one atom each.
NoDefault == [t |-> "NoneType", v |-> <<>>]

\* str(value)
str(d) ==
  CASE d.t = "NoneType" -> <<"None">>
    [] d.t = "list" -> <<"[">> \o join([i \in 1..Len(d.v) |-> <<d.v[i]>>], <<", ">>) \o <<"]">>
    [] OTHER -> d.v

\* repr(value): a string is quoted.
repr(d) == IF d.t = "str" THEN <<"'">> \o d.v \o <<"'">> ELSE str(d)

\* bool(value)
bool(d) ==
  CASE d.t = "NoneType" -> FALSE
    [] d.t = "bool" -> d.v = <<"True">>
    [] d.t = "int" -> d.v # <<"0">>
    [] OTHER -> d.v # <<>>

\* click.Context.command_path: the parent's path, a space, the info name.
command_path(ctx) ==
  IF ctx.parent = None THEN lstrip(ctx.info_name, {" "})
  ELSE lstrip(ctx.parent \o <<" ">> \o ctx.info_name, {" "})

\* click.formatting.join_options: the spellings, shortest prefix first
\* (a stable sort on the length of the prefix), joined with ", ".
PrefixLen(o) == IF Head(o) = "--" THEN 2 ELSE 1

join_options(opts) ==
  LET short == SelectSeq(opts, LAMBDA o : PrefixLen(o) = 1)
      long == SelectSeq(opts, LAMBDA o : PrefixLen(o) # 1)
  IN join(short \o long, <<", ">>)

\* Plural("argument", "argument(s)")
_argument(nargs) == IF nargs = 1 THEN <<"argument">> ELSE <<"argument(s)">>

\* Command.collect_usage_pieces: the options metavar, one piece for each
\* argument, and the sub-command metavar of a multi command.
usage_pieces(command) ==
  LET args == SelectSeq(command.params, LAMBDA p : p.cls = "Argument")
      piece(a) == (IF a.required THEN a.human_readable_name
                   ELSE <<"[">> \o a.human_readable_name \o <<"]">>)
                  \o (IF a.nargs # 1 THEN <<"...">> ELSE <<>>)
  IN <<<<"[OPTIONS]">>>> \o [i \in 1..Len(args) |-> piece(args[i])]
     \o (IF command.cls \in {"Group", "MultiCommand"}
         THEN <<<<"COMMAND [ARGS]...">>>> ELSE <<>>)

_get_usage(ctx) ==
  rstrip(command_path(ctx) \o <<" ">> \o join(usage_pieces(ctx.command), <<" ">>)
         \o <<"\\n">>, {"\\n"})

\* ------------------------------------------------------------- formatters
_write_opts(opt, opts) ==
  LET rv == join_options(opts)
      name == IF Truthy(opt.metavar)
              THEN rstrip(lstrip(opt.metavar, {"<", "[", "{", "(", "$"}),
                          {">", "]", "}", ")", "$"})
              ELSE opt.name
  IN IF ~opt.is_flag /\ ~opt.count THEN rv \o <<" <">> \o name \o <<">">> ELSE rv

\* A variant that tests the default for truth instead of for None.
default_extras_truthy_default(opt) ==
  IF bool(opt.default) /\ bool(opt.show_default)
  THEN IF opt.show_default.t = "str"
       THEN << <<":default: ">> \o opt.show_default.v >>
       ELSE IF opt.default.t = "list"
       THEN << <<":default: ">>
               \o join([i \in 1..Len(opt.default.v) |-> <<opt.default.v[i]>>], <<", ">>) >>
       ELSE << <<":default: ">> \o str(opt.default) >>
  ELSE <<>>

\* The default line of _get_help_record (lines 126-135), as a list of extras.
default_extras(opt) ==
  IF opt.default.t # "NoneType" /\ bool(opt.show_default)
  THEN IF opt.show_default.t = "str"
       THEN << <<":default: ">> \o opt.show_default.v >>
       ELSE IF opt.default.t = "list"
       THEN << <<":default: ">>
               \o join([i \in 1..Len(opt.default.v) |-> <<opt.default.v[i]>>], <<", ">>) >>
       ELSE << <<":default: ">> \o str(opt.default) >>
  ELSE <<>>

_get_help_record(opt) ==
  LET rv == <<_write_opts(opt, opt.opts)>>
            \o (IF opt.secondary_opts # <<>>
                THEN <<_write_opts(opt, opt.secondary_opts)>> ELSE <<>>)
      out == IF Truthy(opt.help)
             THEN IF opt.required THEN << <<"**Required** ">> \o opt.help >>
                  ELSE <<opt.help>>
             ELSE IF opt.required THEN << <<"**Required**">> >> ELSE <<>>
      extras == default_extras(opt)
                \o (IF opt.choices # None
                    THEN << <<":options: ">>
                            \o join([i \in 1..Len(opt.choices) |-> <<opt.choices[i]>>],
                                    <<" | ">>) >>
                    ELSE <<>>)
      body == IF extras # <<>>
              THEN (IF out # <<>> THEN Append(out, <<>>) ELSE out) \o extras
              ELSE out
  IN <<join(rv, <<", ">>), join(body, <<"\\n">>)>>

\* A variant of _format_description in which a blank line leaves the bar on.
_format_description_bar_stays(ctx) ==
  LET help_string == IF Truthy(ctx.command.help) THEN ctx.command.help
                     ELSE ctx.command.short_help
      lines == string2lines(help_string)
      RECURSIVE scan(_, _)
      scan(i, bar_enabled) ==
        IF i > Len(lines) THEN <<>>
        ELSE IF lines[i] = <<"\\x08">> THEN scan(i + 1, TRUE)
        ELSE LET bar == bar_enabled /\ lines[i] # <<>>
             IN <<IF bar THEN <<"| ">> \o lines[i] ELSE lines[i]>>
                \o scan(i + 1, bar_enabled)
  IN IF ~Truthy(help_string) THEN <<>> ELSE scan(1, FALSE) \o <<Blank>>

_format_description(ctx) ==
  LET help_string == IF Truthy(ctx.command.help) THEN ctx.command.help
                     ELSE ctx.command.short_help
      lines == string2lines(help_string)
      RECURSIVE scan(_, _)
      scan(i, bar_enabled) ==
        IF i > Len(lines) THEN <<>>
        ELSE IF lines[i] = <<"\\x08">> THEN scan(i + 1, TRUE)
        ELSE LET bar == bar_enabled /\ lines[i] # <<>>
             IN <<IF bar THEN <<"| ">> \o lines[i] ELSE lines[i]>> \o scan(i + 1, bar)
  IN IF ~Truthy(help_string) THEN <<>> ELSE scan(1, FALSE) \o <<Blank>>

_format_usage(ctx) ==
  LET lines == string2lines(_get_usage(ctx))
  IN << <<".. code-block:: shell">>, Blank >>
     \o [i \in 1..Len(lines) |-> _indent(lines[i])]
     \o <<Blank>>

_format_option(opt) ==
  LET opt_help == _get_help_record(opt)
      lines == string2lines(opt_help[2])
  IN << <<".. option:: ">> \o opt_help[1] >>
     \o (IF opt_help[2] # <<>>
         THEN <<Blank>> \o [i \in 1..Len(lines) |-> _indent(lines[i])]
         ELSE <<>>)

_format_options(ctx) ==
  LET params == SelectSeq(ctx.command.params,
                          LAMBDA param : param.cls = "Option" /\ ~param.hidden)
  IN Flatten([i \in 1..Len(params) |-> _format_option(params[i]) \o <<Blank>>])

_format_argument(arg) ==
  << <<".. option:: ">> \o arg.human_readable_name, Blank >>
  \o (IF arg.description # None THEN <<_indent(arg.description), Blank>> ELSE <<>>)
  \o (IF arg.required
      THEN << <<"    Required ">> \o _argument(arg.nargs) \o <<".">> >>
      ELSE << <<"    Optional ">> \o _argument(arg.nargs) \o <<".">>,
              <<"    Default \\x60\\x60">> \o repr(arg.default) \o <<"\\x60\\x60">> >>)

_format_arguments(ctx) ==
  LET params == SelectSeq(ctx.command.params, LAMBDA x : x.cls = "Argument")
  IN Flatten([i \in 1..Len(params) |-> _format_argument(params[i]) \o <<Blank>>])

_format_envvar(param) ==
  << <<".. envvar:: ">> \o param.envvar, <<"    :noindex:">>, Blank >>
  \o (IF param.cls = "Argument"
      THEN << <<"    Provides a default for :option:\\x60">>
              \o param.human_readable_name \o <<"\\x60">> >>
      ELSE << <<"    Provides a default for :option:\\x60">>
              \o join(param.opts, <<" / ">>) \o <<" <">> \o param.opts[1] \o <<">\\x60">> >>)

_format_envvars(ctx) ==
  LET params == SelectSeq(ctx.command.params, LAMBDA x : Truthy(x.envvar))
      anchor(param) == <<".. _">> \o replace(command_path(ctx), " ", "-") \o <<"-">>
                       \o param.name \o <<"-">> \o param.envvar \o <<":">>
  IN Flatten([i \in 1..Len(params) |->
                <<anchor(params[i]), Blank>> \o _format_envvar(params[i]) \o <<Blank>>])

_format_subcommand(command) ==
  LET lines == string2lines(command.help)
  IN << <<".. object:: ">> \o command.name >>
     \o (IF ~Truthy(command.help) THEN <<>>
         ELSE <<Blank>> \o [i \in 1..Len(lines) |-> _indent(lines[i])])

_format_epilog(ctx) ==
  IF ~Truthy(ctx.command.epilog) THEN <<>>
  ELSE string2lines(ctx.command.epilog) \o <<Blank>>

\* ---------------------------------------------------------- command filter
\* The sub-commands of a lookup, sorted by name (sorted(..., key=name)).
RECURSIVE sorted(_)
sorted(cmds) ==
  IF cmds = {} THEN <<>>
  ELSE LET first == CHOOSE c \in cmds : \A d \in cmds \ {c} : StrLess(c.name, d.name)
       IN <<first>> \o sorted(cmds \ {first})

\* _get_lazyload_commands: a dictionary filled from list_commands and
\* get_command, in the order of the list.
_get_lazyload_commands(multicommand) ==
  LET RECURSIVE fill(_, _)
      fill(i, cmds) ==
        IF i > Len(multicommand.list_commands) THEN cmds
        ELSE LET name == multicommand.list_commands[i]
             IN fill(i + 1, [n \in DOMAIN cmds \cup {name} |->
                               IF n = name THEN multicommand.get_command[name]
                               ELSE cmds[n]])
  IN fill(1, <<>>)

\* A variant that sorts the listed sub-commands as well.
_filter_commands_always_sorted(ctx, commands) ==
  LET attr == ctx.command.commands
      lookup == IF DOMAIN attr = {} /\ ctx.command.cls \in {"Group", "MultiCommand"}
                THEN _get_lazyload_commands(ctx.command) ELSE attr
      parts == split(commands, ",")
      names == {strip(parts[i]) : i \in 1..Len(parts)}
  IN IF commands = None THEN sorted({lookup[n] : n \in DOMAIN lookup})
     ELSE sorted({lookup[n] : n \in DOMAIN lookup \cap names})

_filter_commands(ctx, commands) ==
  LET attr == ctx.command.commands
      lookup == IF DOMAIN attr = {} /\ ctx.command.cls \in {"Group", "MultiCommand"}
                THEN _get_lazyload_commands(ctx.command) ELSE attr
      parts == split(commands, ",")
      names == [i \in 1..Len(parts) |-> strip(parts[i])]
      found == SelectSeq(names, LAMBDA name : name \in DOMAIN lookup)
  IN IF commands = None THEN sorted({lookup[n] : n \in DOMAIN lookup})
     ELSE [i \in 1..Len(found) |-> lookup[found[i]]]

\* -------------------------------------------------------- command assembler
NESTED_FULL == <<"full">>
NESTED_SHORT == <<"short">>
NESTED_NONE == <<"none">>

Rubric(title) == <<".. rubric:: ", title>>

\* A variant that leaves early for nested=none only.
format_commands_section_full_lists(ctx, nested, commands) ==
  IF nested = NESTED_NONE THEN <<>>
  ELSE LET cmds == _filter_commands(ctx, commands)
           shown == SelectSeq(cmds, LAMBDA command : ~command.hidden)
       IN (IF cmds # <<>> THEN <<Rubric("Commands"), Blank>> ELSE <<>>)
          \o Flatten([i \in 1..Len(shown) |-> _format_subcommand(shown[i]) \o <<Blank>>])

\* _format_command, lines 390-404: the Commands section.
format_commands_section(ctx, nested, commands) ==
  IF nested \in {NESTED_FULL, NESTED_NONE} THEN <<>>
  ELSE LET cmds == _filter_commands(ctx, commands)
           shown == SelectSeq(cmds, LAMBDA command : ~command.hidden)
       IN (IF cmds # <<>> THEN <<Rubric("Commands"), Blank>> ELSE <<>>)
          \o Flatten([i \in 1..Len(shown) |-> _format_subcommand(shown[i]) \o <<Blank>>])

\* A variant that writes the arguments before the options.
format_sections_arguments_first(ctx, nested, commands) ==
  LET options == _format_options(ctx)
      arguments == _format_arguments(ctx)
      envvars == _format_envvars(ctx)
  IN _format_description(ctx)
     \o << <<".. program:: ">> \o command_path(ctx) >>
     \o _format_usage(ctx)
     \o (IF arguments # <<>> THEN <<Rubric("Arguments"), Blank>> \o arguments ELSE <<>>)
     \o (IF options # <<>> THEN <<Rubric("Options"), Blank>> ELSE <<>>) \o options
     \o (IF envvars # <<>>
         THEN <<Rubric("Environment variables"), Blank>> \o envvars ELSE <<>>)
     \o _format_epilog(ctx)
     \o format_commands_section(ctx, nested, commands)

\* _format_command, lines 353-404: what a command that is not hidden yields.
format_sections(ctx, nested, commands) ==
  LET options == _format_options(ctx)
      arguments == _format_arguments(ctx)
      envvars == _format_envvars(ctx)
  IN _format_description(ctx)
     \o << <<".. program:: ">> \o command_path(ctx) >>
     \o _format_usage(ctx)
     \o (IF options # <<>> THEN <<Rubric("Options"), Blank>> ELSE <<>>) \o options
     \o (IF arguments # <<>> THEN <<Rubric("Arguments"), Blank>> \o arguments ELSE <<>>)
     \o (IF envvars # <<>>
         THEN <<Rubric("Environment variables"), Blank>> \o envvars ELSE <<>>)
     \o _format_epilog(ctx)
     \o format_commands_section(ctx, nested, commands)

\* A variant without the test of the hidden flag.
_format_command_ignores_hidden(ctx, nested, commands) ==
  format_sections(ctx, nested, commands)

_format_command(ctx, nested, commands) ==
  IF ctx.command.hidden THEN <<>> ELSE format_sections(ctx, nested, commands)

\* ------------------------------------------------------------ the directive
\* An option that the directive does not carry.
Absent == <<"<absent>">>

NoResult == [kind |-> "none", nodes |-> <<>>, error |-> "", warnings |-> <<>>]

\* s.split(sep, 1): cut at the first sep, if there is one.
split1(s, sep) ==
  LET hits == {i \in 1..Len(s) : s[i] = sep}
  IN IF hits = {} THEN <<s>>
     ELSE LET i == CHOOSE h \in hits : \A g \in hits : h <= g
          IN <<SubSeq(s, 1, i - 1), SubSeq(s, i + 1, Len(s))>>

\* nested_option: the converter of the nested option.  An option written
\* without a value reaches it as None.
nested_option(argument) ==
  IF ~Truthy(argument) THEN [ok |-> TRUE, value |-> None]
  ELSE IF argument \notin {NESTED_FULL, NESTED_SHORT, NESTED_NONE}
  THEN [ok |-> FALSE, value |-> None]
  ELSE [ok |-> TRUE, value |-> argument]

\* directives.unchanged: the text, "" for an option without a value.
unchanged(argument) == IF argument = None THEN <<>> ELSE argument

\* option_spec applied to the options as written: self.options, or a
\* ValueError of a converter (ok = FALSE), on which the directive never runs.
\* prog is always written with a value and show-nested without one.
parse_options(raw) ==
  [ok |-> raw.nested = Absent \/ nested_option(raw.nested).ok,
   options |->
     [prog |-> raw.prog,
      nested |-> IF raw.nested = Absent THEN Absent
                 ELSE nested_option(raw.nested).value,
      commands |-> IF raw.commands = Absent THEN Absent
                   ELSE unchanged(raw.commands),
      show_nested |-> raw.show_nested]]

\* click parameters: an option or an argument with every attribute the
\* formatters read.
BaseParam ==
  [cls |-> "Option", name |-> <<"p">>, human_readable_name |-> <<"p">>,
   opts |-> << <<"--", "p">> >>, secondary_opts |-> <<>>, help |-> None,
   required |-> FALSE, default |-> NoDefault,
   show_default |-> [t |-> "bool", v |-> <<"False">>],
   is_flag |-> FALSE, count |-> FALSE, metavar |-> None, choices |-> None,
   envvar |-> None, hidden |-> FALSE, nargs |-> 1, description |-> None]

OptPlain ==
  [BaseParam EXCEPT !.help = <<"hp">>, !.default = [t |-> "int", v |-> <<"0">>],
                    !.show_default = [t |-> "bool", v |-> <<"True">>]]

OptEnv ==
  [BaseParam EXCEPT !.name = <<"e">>, !.human_readable_name = <<"e">>,
                    !.opts = << <<"--", "e">> >>, !.envvar = <<"E">>]

OptHidden ==
  [BaseParam EXCEPT !.name = <<"x">>, !.human_readable_name = <<"x">>,
                    !.opts = << <<"--", "x">> >>, !.hidden = TRUE]

OptHiddenEnv ==
  [BaseParam EXCEPT !.name = <<"y">>, !.human_readable_name = <<"y">>,
                    !.opts = << <<"--", "y">> >>, !.hidden = TRUE,
                    !.envvar = <<"Y">>]

ArgPlain ==
  [BaseParam EXCEPT !.cls = "Argument", !.name = <<"arg">>,
                    !.human_readable_name = <<"ARG">>, !.opts = << <<"arg">> >>,
                    !.required = TRUE]

ArgEnv ==
  [BaseParam EXCEPT !.cls = "Argument", !.name = <<"src">>,
                    !.human_readable_name = <<"SRC">>, !.opts = << <<"src">> >>,
                    !.envvar = <<"S">>, !.nargs = 2]

\* A sub-command: its name, its hidden flag and its help text.
SubCommand(name, hidden) ==
  [name |-> name, hidden |-> hidden,
   help |-> IF name = <<"a">> THEN <<"ha">> ELSE None]

\* What can be imported: the module "pkg" with five attributes, the module
\* "exits" that calls sys.exit(), and nothing else.
PkgModule ==
  LET cli == [c \in {<<"a">>, <<"b">>} |-> SubCommand(c, c = <<"b">>)]
  IN [n \in {<<"cli">>, <<"leaf">>, <<"hid">>, <<"env">>, <<"notcmd">>} |->
        CASE n = <<"cli">> ->
               [[cls |-> "Group", name |-> <<"cli">>, hidden |-> FALSE,
                 help |-> <<"h1">>, short_help |-> None, epilog |-> None,
                 params |-> <<>>, commands |-> cli,
                 list_commands |-> <<<<"a">>, <<"b">>>>, get_command |-> cli]
                EXCEPT !.name = n]
          [] n = <<"leaf">> ->
               [cls |-> "Command", name |-> n, hidden |-> FALSE,
                help |-> None, short_help |-> None, epilog |-> None,
                params |-> <<>>, commands |-> <<>>,
                list_commands |-> <<>>, get_command |-> <<>>]
          [] n = <<"env">> ->
               [cls |-> "Command", name |-> n, hidden |-> FALSE,
                help |-> None, short_help |-> None, epilog |-> None,
                params |-> <<OptEnv, ArgEnv>>, commands |-> <<>>,
                list_commands |-> <<>>, get_command |-> <<>>]
          [] n = <<"hid">> ->
               [cls |-> "Group", name |-> n, hidden |-> TRUE,
                help |-> <<"h1">>, short_help |-> None, epilog |-> None,
                params |-> <<>>, commands |-> cli,
                list_commands |-> <<<<"a">>, <<"b">>>>, get_command |-> cli]
          [] OTHER ->
               [cls |-> "object", name |-> n, hidden |-> FALSE,
                help |-> None, short_help |-> None, epilog |-> None,
                params |-> <<>>, commands |-> <<>>,
                list_commands |-> <<>>, get_command |-> <<>>]]

\* __import__(module_name, ...): the module, or the exception it raises.
import(module_name) ==
  CASE module_name = <<"pkg">> -> [raised |-> "", module |-> PkgModule]
    [] module_name = <<"exits">> -> [raised |-> "SystemExit", module |-> <<>>]
    [] OTHER -> [raised |-> "Exception", module |-> <<>>]

\* ClickDirective._load_module: the command, or the directive error.
_load_module(module_path) ==
  LET parts == split1(module_path, ":")
      module_name == parts[1]
      attr_name == parts[2]
      imported == import(module_name)
      error(msg) == [ok |-> FALSE, error |-> msg, parser |-> <<>>]
  IN IF Len(parts) # 2 THEN error("is not of format")
     ELSE IF imported.raised = "SystemExit"
     THEN error("Failed to import: the module appeared to call sys.exit()")
     ELSE IF imported.raised # ""
     THEN error("Failed to import: the following exception was raised")
     ELSE IF attr_name \notin DOMAIN imported.module THEN error("has no attribute")
     ELSE IF imported.module[attr_name].cls \notin {"Command", "Group", "MultiCommand"}
     THEN error("is not derived from click.BaseCommand")
     ELSE [ok |-> TRUE, error |-> "", parser |-> imported.module[attr_name]]

\* click_purger.add_node(env, node, targetnode, lineno): one more entry.
add_node(registry, doc, node, targetnode, line) ==
  Append(registry, [docname |-> doc, lineno |-> line, node |-> node,
                    target |-> targetnode])

\* click_purger.purge_nodes(app, env, docname): the entries of other documents.
purge_nodes(registry, doc) == SelectSeq(registry, LAMBDA e : e.docname # doc)

\* A variant of _generate_nodes that allocates the target identifier before
\* it tests hidden.
_generate_nodes_allocates_first(serial, registry, doc, line, name, command, parent, nested, commands) ==
  IF command.hidden
  THEN [nodes |-> <<>>, serialno |-> serial + 1, all_click |-> registry]
  ELSE LET targetnode == [tag |-> "target", ids |-> <<"click-", serial>>,
                          rawsource |-> <<>>]
           ctx == [command |-> command, info_name |-> name, parent |-> parent]
           content == _format_command(ctx, nested, commands)
           click_node == [tag |-> "paragraph", ids |-> <<>>, rawsource |-> content]
       IN [nodes |-> <<targetnode, click_node>>,
           serialno |-> serial + 1,
           all_click |-> add_node(registry, doc, click_node, targetnode, line)]

\* ClickDirective._generate_nodes, with the environment it reads and writes:
\* the serial number counter, the registry, the document and the line.
_generate_nodes(serial, registry, doc, line, name, command, parent, nested, commands) ==
  IF command.hidden
  THEN [nodes |-> <<>>, serialno |-> serial, all_click |-> registry]
  ELSE LET targetnode == [tag |-> "target", ids |-> <<"click-", serial>>,
                          rawsource |-> <<>>]
           ctx == [command |-> command, info_name |-> name, parent |-> parent]
           content == _format_command(ctx, nested, commands)
           click_node == [tag |-> "paragraph", ids |-> <<>>, rawsource |-> content]
       IN [nodes |-> <<targetnode, click_node>>,
           serialno |-> serial + 1,
           all_click |-> add_node(registry, doc, click_node, targetnode, line)]

\* A variant of run that generates the nodes before it tests the options.
run_tests_options_late(serial, registry, doc, line, args, opts) ==
  LET loaded == _load_module(args[1])
      show_nested == opts.show_nested # Absent
      nested == IF opts.nested = Absent THEN None ELSE opts.nested
      commands == IF opts.commands = Absent THEN None ELSE opts.commands
      mode == IF show_nested THEN NESTED_FULL ELSE nested
      fail(msg) ==
        [kind |-> "error", error |-> msg, warnings |-> <<>>, calls |-> <<>>,
         made |-> [nodes |-> <<>>, serialno |-> serial, all_click |-> registry]]
  IN IF ~loaded.ok THEN fail(loaded.error)
     ELSE IF opts.prog = Absent THEN fail(":prog: must be specified")
     ELSE [kind |-> IF show_nested /\ Truthy(nested) THEN "error" ELSE "nodes",
           error |-> IF show_nested /\ Truthy(nested)
                     THEN "':nested:' and ':show-nested:' are mutually exclusive"
                     ELSE "",
           warnings |-> IF show_nested /\ ~Truthy(nested)
                        THEN <<"DeprecationWarning">> ELSE <<>>,
           calls |-> <<[name |-> opts.prog, command |-> loaded.parser.name,
                        nested |-> mode]>>,
           made |-> _generate_nodes(serial, registry, doc, line, opts.prog,
                                    loaded.parser, None, mode, commands)]

\* ClickDirective.run on self.arguments and self.options, with the
\* environment it reads and writes.  An error raised by self.error ends the
\* directive (kind "error"); calls lists the _generate_nodes calls that were
\* made, and made is what the environment and the returned nodes come to.
run(serial, registry, doc, line, args, opts) ==
  LET loaded == _load_module(args[1])
      show_nested == opts.show_nested # Absent
      nested == IF opts.nested = Absent THEN None ELSE opts.nested
      commands == IF opts.commands = Absent THEN None ELSE opts.commands
      mode == IF show_nested THEN NESTED_FULL ELSE nested
      fail(msg) ==
        [kind |-> "error", error |-> msg, warnings |-> <<>>, calls |-> <<>>,
         made |-> [nodes |-> <<>>, serialno |-> serial, all_click |-> registry]]
  IN IF ~loaded.ok THEN fail(loaded.error)
     ELSE IF opts.prog = Absent THEN fail(":prog: must be specified")
     ELSE IF show_nested /\ Truthy(nested)
     THEN fail("':nested:' and ':show-nested:' are mutually exclusive")
     ELSE [kind |-> "nodes", error |-> "",
           warnings |-> IF show_nested THEN <<"DeprecationWarning">> ELSE <<>>,
           calls |-> <<[name |-> opts.prog, command |-> loaded.parser.name,
                        nested |-> mode]>>,
           made |-> _generate_nodes(serial, registry, doc, line, opts.prog,
                                    loaded.parser, None, mode, commands)]

\* A variant of env_get_outdated that leaves out the documents Sphinx has
\* already found changed.
env_get_outdated_not_changed(registry, added, changed, removed) ==
  LET nodes == SelectSeq(registry, LAMBDA node : node.docname \notin changed)
  IN [i \in 1..Len(nodes) |-> nodes[i].docname]

\* env_get_outdated(app, env, added, changed, removed): the document name of
\* every node of env.all_click (one name for each node).
env_get_outdated(registry, added, changed, removed) ==
  [i \in 1..Len(registry) |-> registry[i].docname]

\* ------------------------------------------------------------------ state
VARIABLES
  pc,        \* "ready" before the call under study, "done" after it
  ctx,       \* the click.Context handed to a formatter
  nested,    \* the nested argument of _format_command
  commands,  \* the commands argument: None or the inclusion list
  output,    \* list(_format_command(ctx, nested, commands))
  filtered,  \* _filter_commands(ctx, commands)
  opt,       \* the click.Option handed to _get_help_record
  record,    \* _get_help_record(opt)
  docname,   \* env.docname: the document being read
  serialno,  \* env.temp_data["clickserialno"], the next serial number
  all_click, \* env.all_click: the nodes registered with click_purger
  arguments, \* self.arguments of the last directive
  options,   \* self.options of the last directive, as written in the document
  lineno,    \* self.lineno of the last directive
  result,    \* what the last directive came to
  calls,     \* the _generate_nodes calls of the last directive
  runs,      \* how many directives have run
  outdated,  \* what env_get_outdated returned to the last build
  builds     \* how many builds have asked for the outdated documents

fmtVars == <<ctx, nested, commands, output, filtered, opt, record>>

dirVars == <<docname, serialno, all_click, arguments, options, lineno, result,
             calls, runs, outdated, builds>>

vars == <<pc, fmtVars, dirVars>>

NoOptions ==
  [prog |-> Absent, nested |-> Absent, commands |-> Absent, show_nested |-> Absent]

\* The directive's state where no directive runs.
IdleDirective ==
  /\ docname = "index"
  /\ serialno = 0
  /\ all_click = <<>>
  /\ arguments = <<>>
  /\ options = NoOptions
  /\ lineno = 0
  /\ result = NoResult
  /\ calls = <<>>
  /\ runs = 0
  /\ outdated = <<>>
  /\ builds = 0

\* ----------------------------------------------------------------- inputs
FormatParams == {OptPlain, OptEnv, OptHidden, OptHiddenEnv, ArgPlain, ArgEnv}

\* The parameter lists of a command: up to MaxParams different parameters.
ParamSeqs ==
  UNION {{s \in [1..n -> FormatParams] : \A i, j \in 1..n : i # j => s[i] # s[j]}
         : n \in 0..MaxParams}

SubNames == {<<"a">>, <<"b">>}

\* The name -> sub-command dictionaries over SubNames.
Lookups ==
  UNION {{[n \in S |-> SubCommand(n, h[n])] : h \in [S -> BOOLEAN]}
         : S \in SUBSET SubNames}

Reverse(s) == [i \in 1..Len(s) |-> s[Len(s) + 1 - i]]

NamesOf(lookup) ==
  LET cmds == sorted({lookup[n] : n \in DOMAIN lookup})
  IN [i \in 1..Len(cmds) |-> cmds[i].name]

BaseCommand ==
  [cls |-> "Command", name |-> <<"cli">>, hidden |-> FALSE, help |-> None,
   short_help |-> None, epilog |-> None, params |-> <<>>, commands |-> <<>>,
   list_commands |-> <<>>, get_command |-> <<>>]

\* A click.Group keeps its sub-commands in .commands; a custom
\* click.MultiCommand has no such attribute and resolves them lazily.
Group(lookup) ==
  [BaseCommand EXCEPT !.cls = "Group", !.commands = lookup,
                      !.list_commands = NamesOf(lookup), !.get_command = lookup]

MultiCommand(lookup) ==
  [BaseCommand EXCEPT !.cls = "MultiCommand",
                      !.list_commands = Reverse(NamesOf(lookup)),
                      !.get_command = lookup]

Shapes ==
  {BaseCommand} \cup {Group(l) : l \in Lookups}
  \cup {MultiCommand(l) : l \in Lookups \ {<<>>}}

Helps ==
  {[help |-> None, short_help |-> None],
   [help |-> <<"h1", "\\n", "h2">>, short_help |-> None],
   [help |-> None, short_help |-> <<"sh">>]}

Epilogs == {None, <<"e1">>}

Commands ==
  {[c EXCEPT !.hidden = hid, !.help = h.help, !.short_help = h.short_help,
             !.epilog = e, !.params = ps]
   : c \in Shapes, hid \in BOOLEAN, h \in Helps, e \in Epilogs, ps \in ParamSeqs}

Contexts == {[command |-> c, info_name |-> <<"cli">>, parent |-> None] : c \in Commands}

NestedValues == {NESTED_FULL, NESTED_SHORT, NESTED_NONE, None}

\* commands=None, "", "a", "b, a" and the unknown name "c"
Filters == {None, <<>>, <<"a">>, <<"b", ",", " ", "a">>, <<"c">>}

\* ---------------------------------------------------- the command assembler
InitFormat ==
  /\ pc = "ready"
  /\ ctx \in Contexts
  /\ nested \in NestedValues
  /\ commands \in Filters
  /\ output = <<>>
  /\ filtered = <<>>
  /\ opt = BaseParam
  /\ record = <<>>
  /\ IdleDirective

\* output = list(_format_command(ctx, nested, commands))
FormatCommand ==
  /\ pc = "ready"
  /\ output' = _format_command(ctx, nested, commands)
  /\ pc' = "done"
  /\ UNCHANGED <<ctx, nested, commands, filtered, opt, record, dirVars>>

NextFormat == FormatCommand

SpecFormat == InitFormat /\ [][NextFormat]_vars

\* ------------------------------------------------ claims on the assembler
Done == pc = "done"

\* The sub-commands a command owns, eagerly or lazily.
Children(command) == {command.get_command[n] : n \in DOMAIN command.get_command}

HasRubric(title) == \E i \in 1..Len(output) : output[i] = Rubric(title)

\* C1: a command whose hidden flag is set yields no line at all, whatever
\* the disclosure mode and the commands filter.
C1_HiddenCommandIsEmpty == (Done /\ ctx.command.hidden) => output = <<>>

C1_Witness ==
  /\ Done /\ ctx.command.hidden /\ output = <<>>
  /\ nested = NESTED_SHORT /\ commands = <<"b", ",", " ", "a">>
  /\ Len(ctx.command.params) = 2 /\ Truthy(ctx.command.help)
  /\ \E c \in Children(ctx.command) : ~c.hidden

\* A line names a parameter when it holds the parameter's name.
Mentions(line, param) == \E k \in 1..Len(line) : <<line[k]>> = param.name

\* C2: no produced line names a hidden option or a hidden sub-command, also
\* when the hidden option is bound to an environment variable.
C2_HiddenNeverAppears ==
  Done =>
    \A i \in 1..Len(output) :
      /\ \A k \in 1..Len(ctx.command.params) :
           ctx.command.params[k].hidden => ~Mentions(output[i], ctx.command.params[k])
      /\ \A c \in Children(ctx.command) :
           c.hidden => output[i] # <<".. object:: ">> \o c.name

\* The names an inclusion list holds: every name when there is no list.
SelectedBy(list, name) ==
  \/ list = None
  \/ \E k \in 1..Len(split(list, ",")) : strip(split(list, ",")[k]) = name

Selected(name) == SelectedBy(commands, name)

NoCommandsUnlessShort ==
  nested \in {NESTED_FULL, NESTED_NONE} => ~HasRubric("Commands")

\* C4 as stated: with nested short or unset the Commands section is there
\* whenever the command has a sub-command that is not hidden.
C4_Original ==
  (Done /\ ~ctx.command.hidden) =>
    /\ NoCommandsUnlessShort
    /\ (nested \in {NESTED_SHORT, None}
        /\ \E c \in Children(ctx.command) : ~c.hidden) => HasRubric("Commands")

\* C4: for a command that is not hidden, nested full and nested none never
\* give a Commands section; nested short or unset gives one whenever a
\* sub-command that is not hidden is selected by the commands filter (every
\* sub-command is selected when no filter is given).
C4_CommandsSection ==
  (Done /\ ~ctx.command.hidden) =>
    /\ NoCommandsUnlessShort
    /\ (nested \in {NESTED_SHORT, None}
        /\ \E c \in Children(ctx.command) : ~c.hidden /\ Selected(c.name))
       => HasRubric("Commands")

C4_Witness ==
  /\ Done /\ ~ctx.command.hidden /\ nested = None
  /\ commands = <<"b", ",", " ", "a">>
  /\ \E c \in Children(ctx.command) : ~c.hidden
  /\ \E c \in Children(ctx.command) : c.hidden
  /\ HasRubric("Commands")

\* The first line of a section's body, by the section's title.
BodyStart(title, line) ==
  /\ line # <<>>
  /\ CASE title = "Options" -> line[1] = ".. option:: "
       [] title = "Arguments" -> line[1] = ".. option:: "
       [] title = "Environment variables" -> line[1] = ".. _"
       [] title = "Commands" -> line[1] = ".. object:: "
       [] OTHER -> FALSE

\* C5: a rubric header is never followed by an empty body: after the header
\* and its blank line comes the first line of the section.
C5_NoRubricOverEmptyBody ==
  Done =>
    \A i \in 1..Len(output) :
      (output[i] # <<>> /\ output[i][1] = ".. rubric:: ") =>
        /\ i + 2 <= Len(output)
        /\ output[i + 1] = Blank
        /\ BodyStart(output[i][2], output[i + 2])

\* The section a line belongs to, from what the line says: 1 description,
\* 2 program directive, 3 usage, 4 Options, 5 Arguments, 6 Environment
\* variables, 7 epilog, 8 Commands; 0 for a blank line, -1 for any other.
Section(line) ==
  CASE line = <<>> -> 0
    [] line # <<>> /\ line[1] \in {"h1", "h2", "sh", "| "} -> 1
    [] line # <<>> /\ line[1] = ".. program:: " -> 2
    [] line = <<".. code-block:: shell">> -> 3
    [] Len(line) >= 2 /\ line[1] = "    " /\ line[2] = "cli" -> 3
    [] line = Rubric("Options") -> 4
    [] Len(line) >= 2 /\ line[1] = ".. option:: " /\ line[2] \in {"-", "--"} -> 4
    [] line = <<"    ">> -> 4
    [] Len(line) >= 2 /\ line[1] = "    " /\ line[2] \in {"hp", ":default: "} -> 4
    [] line = Rubric("Arguments") -> 5
    [] Len(line) >= 2 /\ line[1] = ".. option:: " /\ line[2] \notin {"-", "--"} -> 5
    [] line # <<>> /\ line[1] \in {"    Required ", "    Optional ",
                                   "    Default \\x60\\x60"} -> 5
    [] line = Rubric("Environment variables") -> 6
    [] line # <<>> /\ line[1] \in {".. _", ".. envvar:: ", "    :noindex:",
                                   "    Provides a default for :option:\\x60"} -> 6
    [] line # <<>> /\ line[1] = "e1" -> 7
    [] line = Rubric("Commands") -> 8
    [] line # <<>> /\ line[1] = ".. object:: " -> 8
    [] Len(line) >= 2 /\ line[1] = "    " /\ line[2] = "ha" -> 8
    [] OTHER -> -1

\* The names on the ".. option::" lines of one section, in output order.
DirectiveNames(section) ==
  LET ls == SelectSeq(output, LAMBDA l : l # <<>> /\ l[1] = ".. option:: "
                                         /\ Section(l) = section)
  IN [i \in 1..Len(ls) |-> IF section = 4 THEN <<ls[i][3]>> ELSE <<ls[i][2]>>]

\* The names of the declared parameters that a section documents.
DeclaredNames(section) ==
  LET ps == SelectSeq(ctx.command.params,
                      LAMBDA p : IF section = 4 THEN p.cls = "Option" /\ ~p.hidden
                                 ELSE p.cls = "Argument")
  IN [i \in 1..Len(ps) |-> ps[i].human_readable_name]

\* C6: the sections come in the order description, program directive and
\* usage, Options, Arguments, Environment variables, epilog, Commands, and
\* the Options and Arguments sections list the parameters in declared order.
C6_SectionOrder ==
  (Done /\ ~ctx.command.hidden) =>
    /\ \A i \in 1..Len(output) : Section(output[i]) # -1
    /\ LET ranks == SelectSeq([i \in 1..Len(output) |-> Section(output[i])],
                              LAMBDA r : r # 0)
       IN \A i \in 1..Len(ranks) - 1 : ranks[i] <= ranks[i + 1]
    /\ DirectiveNames(4) = DeclaredNames(4)
    /\ DirectiveNames(5) = DeclaredNames(5)

C6_Witness ==
  /\ Done /\ ~ctx.command.hidden
  /\ ctx.command.params = <<ArgEnv, OptPlain>>
  /\ HasRubric("Options") /\ HasRubric("Arguments")
  /\ HasRubric("Environment variables") /\ HasRubric("Commands")
  /\ \E i \in 1..Len(output) : Section(output[i]) = 1
  /\ \E i \in 1..Len(output) : Section(output[i]) = 7

\* ------------------------------------------------------ the command filter
FilterNames == {<<"a">>, <<"b">>, <<"a", "b">>}

FilterAlphabet == {"a", "b", ",", " "}

\* The dictionaries over FilterNames, each sub-command hidden or not.
FilterLookups ==
  UNION {{[n \in S |-> SubCommand(n, h[n])] : h \in [S -> BOOLEAN]}
         : S \in SUBSET FilterNames}

FilterContexts ==
  {[command |-> c, info_name |-> <<"cli">>, parent |-> None]
   : c \in {Group(l) : l \in FilterLookups}
           \cup {MultiCommand(l) : l \in FilterLookups \ {<<>>}}}

\* The inclusion lists: every string of up to MaxFilterLen atoms.
FilterStrings == UNION {[1..n -> FilterAlphabet] : n \in 0..MaxFilterLen}

InitFilter ==
  /\ pc = "ready"
  /\ ctx \in FilterContexts
  /\ nested \in {NESTED_SHORT, None}
  /\ commands \in FilterStrings \cup {None}
  /\ output = <<>>
  /\ filtered = <<>>
  /\ opt = BaseParam
  /\ record = <<>>
  /\ IdleDirective

\* The call of line 394 inside _format_command, and the whole output.
FilterCommands ==
  /\ pc = "ready"
  /\ filtered' = _filter_commands(ctx, commands)
  /\ output' = _format_command(ctx, nested, commands)
  /\ pc' = "done"
  /\ UNCHANGED <<ctx, nested, commands, opt, record, dirVars>>

NextFilter == FilterCommands

SpecFilter == InitFilter /\ [][NextFilter]_vars

\* The trimmed tokens of the inclusion list.
Tokens == [k \in 1..Len(split(commands, ",")) |-> strip(split(commands, ",")[k])]

ChildNames == {c.name : c \in Children(ctx.command)}

\* The positions of the tokens that name a sub-command, in increasing order.
RECURSIVE Ascending(_)
Ascending(S) ==
  IF S = {} THEN <<>>
  ELSE LET m == CHOOSE x \in S : \A y \in S : x <= y
       IN <<m>> \o Ascending(S \ {m})

KnownPositions == Ascending({k \in 1..Len(Tokens) : Tokens[k] \in ChildNames})

\* The names on the ".. object::" lines of the output, in output order.
ObjectNames ==
  LET ls == SelectSeq(output, LAMBDA l : l # <<>> /\ l[1] = ".. object:: ")
  IN [i \in 1..Len(ls) |-> Tail(ls[i])]

\* C3: without an inclusion list the filter returns every sub-command, in
\* alphabetical order of the names; with a list it returns one sub-command
\* for each trimmed token that names one, in the order of the tokens, and
\* nothing else; the Commands section lists those that are not hidden in
\* that same order.  {a, ab, b} with "b, a" gives exactly b then a.
C3_FilterOrder ==
  Done =>
    /\ \A i \in 1..Len(filtered) : filtered[i] \in Children(ctx.command)
    /\ commands = None =>
         /\ {filtered[i] : i \in 1..Len(filtered)} = Children(ctx.command)
         /\ \A i \in 1..Len(filtered) - 1 :
              StrLess(filtered[i].name, filtered[i + 1].name)
         /\ ChildNames = FilterNames =>
              [i \in 1..Len(filtered) |-> filtered[i].name]
                = << <<"a">>, <<"a", "b">>, <<"b">> >>
    /\ commands # None =>
         /\ Len(filtered) = Len(KnownPositions)
         /\ \A i \in 1..Len(filtered) : filtered[i].name = Tokens[KnownPositions[i]]
         /\ (commands = <<"b", ",", " ", "a">> /\ ChildNames = FilterNames) =>
              [i \in 1..Len(filtered) |-> filtered[i].name] = << <<"b">>, <<"a">> >>
    /\ LET shown == SelectSeq(filtered, LAMBDA c : ~c.hidden)
       IN ObjectNames = [i \in 1..Len(shown) |-> shown[i].name]

C3_Witness ==
  /\ Done /\ commands = <<"b", ",", " ", "a">> /\ ChildNames = FilterNames
  /\ Len(filtered) = 2 /\ filtered[1].name = <<"b">> /\ filtered[2].name = <<"a">>
  /\ ObjectNames = << <<"b">>, <<"a">> >>

\* The positions of the tokens that name a sub-command and repeat no earlier
\* token.
FirstPositions ==
  Ascending({k \in 1..Len(Tokens) :
               /\ Tokens[k] \in ChildNames
               /\ \A j \in 1..(k - 1) : Tokens[j] # Tokens[k]})

\* C14: with an inclusion list that repeats a name, the filter returns the
\* sub-command once, at the place of the name's first occurrence, and the
\* Commands section lists it once.
C14_DuplicatesCollapse ==
  (Done /\ commands # None) =>
    /\ Len(filtered) = Len(FirstPositions)
    /\ \A i \in 1..Len(filtered) : filtered[i].name = Tokens[FirstPositions[i]]
    /\ \A i, j \in 1..Len(ObjectNames) : i # j => ObjectNames[i] # ObjectNames[j]

\* ---------------------------------------------------- the option formatter
Defaults ==
  {NoDefault,
   [t |-> "int", v |-> <<"0">>], [t |-> "int", v |-> <<"42">>],
   [t |-> "str", v |-> <<>>], [t |-> "str", v |-> <<"d">>],
   [t |-> "list", v |-> <<>>], [t |-> "list", v |-> <<"1", "2">>],
   [t |-> "function", v |-> <<"<function>">>]}

ShowDefaults ==
  {[t |-> "NoneType", v |-> <<>>],
   [t |-> "bool", v |-> <<"False">>], [t |-> "bool", v |-> <<"True">>],
   [t |-> "str", v |-> <<>>], [t |-> "str", v |-> <<"computed">>]}

HelpOptions ==
  {[BaseParam EXCEPT !.default = d, !.show_default = sd, !.help = h,
                     !.required = r, !.is_flag = f, !.choices = ch, !.metavar = m]
   : d \in Defaults, sd \in ShowDefaults, h \in {None, <<"hp">>}, r \in BOOLEAN,
     f \in BOOLEAN, ch \in {None, <<"c1", "c2">>}, m \in {None, <<"[", "FOO", "]">>}}

InitHelp ==
  /\ pc = "ready"
  /\ opt \in HelpOptions
  /\ record = <<>>
  /\ ctx = [command |-> BaseCommand, info_name |-> <<"cli">>, parent |-> None]
  /\ nested = None
  /\ commands = None
  /\ output = <<>>
  /\ filtered = <<>>
  /\ IdleDirective

\* record = _get_help_record(opt), and the lines _format_option makes of it
GetHelpRecord ==
  /\ pc = "ready"
  /\ record' = _get_help_record(opt)
  /\ output' = _format_option(opt)
  /\ pc' = "done"
  /\ UNCHANGED <<ctx, nested, commands, filtered, opt, dirVars>>

NextHelp == GetHelpRecord

SpecHelp == InitHelp /\ [][NextHelp]_vars

\* The default lines in the body of the help record.
DefaultLines ==
  SelectSeq(string2lines(record[2]), LAMBDA l : l # <<>> /\ l[1] = ":default: ")

\* C10: the help record holds a default line exactly when the default is not
\* None and show_default is truthy; a default of 0 or "" still renders; a
\* string show_default is rendered in place of the default.
C10_DefaultLine ==
  Done =>
    /\ Len(DefaultLines) = (IF opt.default # NoDefault /\ bool(opt.show_default)
                            THEN 1 ELSE 0)
    /\ (opt.default = [t |-> "int", v |-> <<"0">>]
        /\ opt.show_default = [t |-> "bool", v |-> <<"True">>])
       => /\ DefaultLines = << <<":default: ", "0">> >>
          /\ \E i \in 1..Len(output) : output[i] = <<"    ", ":default: ", "0">>
    /\ (opt.default = [t |-> "str", v |-> <<>>]
        /\ opt.show_default = [t |-> "bool", v |-> <<"True">>])
       => DefaultLines = << <<":default: ">> >>
    /\ (opt.default # NoDefault /\ opt.show_default.t = "str"
        /\ opt.show_default.v # <<>>)
       => DefaultLines = << <<":default: ">> \o opt.show_default.v >>

C10_Witness ==
  /\ Done
  /\ opt.default = [t |-> "int", v |-> <<"0">>]
  /\ opt.show_default = [t |-> "bool", v |-> <<"True">>]
  /\ opt.help = <<"hp">>
  /\ DefaultLines = << <<":default: ", "0">> >>

\* ------------------------------------------------------------ the directive
Docs == {"index", "usage"}

\* The module paths that name a command, and those that do not: no colon,
\* not a command, no such attribute, a module that exits, no such module.
GoodArguments ==
  {<<<<"pkg", ":", "cli">>>>, <<<<"pkg", ":", "leaf">>>>, <<<<"pkg", ":", "hid">>>>}

BadArguments ==
  {<<<<"pkg">>>>, <<<<"pkg", ":", "notcmd">>>>, <<<<"pkg", ":", "gone">>>>,
   <<<<"exits", ":", "cli">>>>, <<<<"nomod", ":", "cli">>>>}

\* A command with parameters bound to environment variables, and the program
\* names it is documented under: "cli", "c li" and "c-li".
EnvArguments == {<<<<"pkg", ":", "env">>>>}

EnvProgs == {<<"cli">>, <<"c", " ", "li">>, <<"c", "-", "li">>}

\* The options as written: None stands for an option without a value.
RawOptions ==
  [prog : {Absent, <<"cli">>},
   nested : {Absent, None, NESTED_FULL, NESTED_SHORT, NESTED_NONE, <<"bogus">>},
   commands : {Absent, <<"a">>},
   show_nested : {Absent, None}]

\* What a directive is written with: a module path that names a command with
\* any options, the command with environment variables under one of its
\* program names, or another module path with options that are in order or
\* with options that are an error of their own.
DirectiveInputs ==
  (GoodArguments \X RawOptions)
  \cup (EnvArguments \X {[NoOptions EXCEPT !.prog = p] : p \in EnvProgs})
  \cup (BadArguments
        \X {[NoOptions EXCEPT !.prog = <<"cli">>],
            [NoOptions EXCEPT !.nested = NESTED_FULL, !.show_nested = None]})

InitDirective ==
  /\ pc = "ready"
  /\ ctx = [command |-> BaseCommand, info_name |-> <<"cli">>, parent |-> None]
  /\ nested = None
  /\ commands = None
  /\ output = <<>>
  /\ filtered = <<>>
  /\ opt = BaseParam
  /\ record = <<>>
  /\ IdleDirective

\* One click directive of the current document, the next one down the page,
\* written as one of inputs, is parsed and run.  Options that a converter
\* rejects end the directive before run is called.
Directive(inputs) ==
  /\ runs < MaxRuns
  /\ \E input \in inputs :
       \E parsed \in {parse_options(input[2])} :
         \E r \in {IF parsed.ok
                   THEN run(serialno, all_click, docname, 4 * runs + 3, input[1],
                            parsed.options)
                   ELSE [kind |-> "invalid option", error |-> "", warnings |-> <<>>,
                         calls |-> <<>>,
                         made |-> [nodes |-> <<>>, serialno |-> serialno,
                                   all_click |-> all_click]]} :
           /\ arguments' = input[1]
           /\ options' = input[2]
           /\ lineno' = 4 * runs + 3
           /\ result' = [kind |-> r.kind, nodes |-> r.made.nodes, error |-> r.error,
                         warnings |-> r.warnings]
           /\ serialno' = r.made.serialno
           /\ all_click' = r.made.all_click
           /\ calls' = r.calls
  /\ runs' = runs + 1
  /\ UNCHANGED <<pc, fmtVars, docname, outdated, builds>>

Run == Directive(DirectiveInputs)

\* Sphinx starts to read a document: env-purge-doc is emitted for it (setup
\* connects click_purger.purge_nodes) and temp_data starts empty.
ReadDoc ==
  /\ \E d \in Docs :
       /\ docname' = d
       /\ all_click' = purge_nodes(all_click, d)
  /\ serialno' = 0
  /\ UNCHANGED <<pc, fmtVars, arguments, options, lineno, result, calls, runs,
                 outdated, builds>>

NextDirective == Run \/ ReadDoc

SpecDirective == InitDirective /\ [][NextDirective]_vars

\* ------------------------------------------------ claims on the directive
\* The last directive named a command, carried prog and had valid options.
Loaded == arguments \in GoodArguments \cup EnvArguments

Valid == options.nested # <<"bogus">>

LastCommand == PkgModule[SubSeq(arguments[1], 3, Len(arguments[1]))]

LastFilter == IF options.commands = Absent THEN None ELSE options.commands

\* The lines the last directive's command gives under one disclosure mode.
Expected(mode) ==
  IF LastCommand.hidden THEN <<>>
  ELSE _format_command([command |-> LastCommand, info_name |-> options.prog,
                        parent |-> None], mode, LastFilter)

\* The lines of the fragment the last directive returned.
Content == IF result.nodes = <<>> THEN <<>> ELSE result.nodes[2].rawsource

\* The sub-commands of the last command that its Commands index would list.
Listed ==
  {c \in Children(LastCommand) : ~c.hidden /\ SelectedBy(LastFilter, c.name)}

\* C7: a directive with nested=full on a group calls the node generator for
\* the group and once more for each listed sub-command, and its result holds
\* a target and a fragment for each of them.
C7_FullExpandsSubCommands ==
  (runs > 0 /\ Loaded /\ Valid /\ options.prog # Absent
   /\ options.nested = NESTED_FULL /\ options.show_nested = Absent
   /\ ~LastCommand.hidden)
  => /\ result.kind = "nodes"
     /\ Len(calls) = 1 + Cardinality(Listed)
     /\ \A c \in Listed : \E k \in 2..Len(calls) : calls[k].command = c.name
     /\ Len(result.nodes) = 2 * Len(calls)

\* C8: nested together with show-nested is a directive error, whatever the
\* value of nested, the empty one included; show-nested alone gives what
\* nested=full gives, with a deprecation warning; neither gives what
\* nested=short gives.
C8_NestedAndShowNested ==
  (runs > 0 /\ Loaded /\ Valid /\ options.prog # Absent) =>
    /\ (options.show_nested # Absent /\ options.nested # Absent)
       => result.kind = "error"
    /\ (options.show_nested # Absent /\ options.nested = Absent)
       => /\ result.kind = "nodes"
          /\ result.warnings = <<"DeprecationWarning">>
          /\ Content = Expected(NESTED_FULL)
    /\ (options.show_nested = Absent /\ options.nested = Absent)
       => /\ result.kind = "nodes"
          /\ result.warnings = <<>>
          /\ Content = Expected(NESTED_SHORT)

\* The last directive is one of the errors of _load_module and run: a module
\* path without a colon, a module that cannot be imported or that exits, a
\* missing attribute, an attribute that is no command, no prog, a nested
\* value together with show-nested.
MustFail ==
  /\ Valid
  /\ \/ arguments \in BadArguments
     \/ options.prog = Absent
     \/ options.show_nested # Absent
        /\ options.nested \in {NESTED_FULL, NESTED_SHORT, NESTED_NONE}

\* C9: a directive that ends in a directive error returns no nodes, calls
\* the node generator not at all, allocates no serial number and leaves the
\* purge registry as it was; each of the listed errors ends the directive so.
C9_FailedDirective ==
  [][runs' = runs + 1 =>
       /\ MustFail' => result'.kind = "error"
       /\ result'.kind = "error" =>
            /\ result'.nodes = <<>>
            /\ calls' = <<>>
            /\ serialno' = serialno
            /\ all_click' = all_click]_vars

C9_Witness ==
  /\ runs = 2
  /\ result.kind = "error"
  /\ options.show_nested # Absent /\ options.nested = NESTED_SHORT
  /\ arguments = <<<<"pkg", ":", "cli">>>>
  /\ Len(all_click) = 1
  /\ serialno = 1

\* The registry entries of one document.
EntriesOf(registry, doc) == SelectSeq(registry, LAMBDA e : e.docname = doc)

\* C13: a call of the node generator for a hidden command returns no nodes,
\* allocates no target identifier and leaves the registry as it was; a call
\* for any other command allocates one identifier that no registered target
\* of the document bears, returns the target and the fragment, and appends
\* to the registry one entry of the two under the current document and the
\* directive's line, leaving the earlier entries in place; so the registry
\* holds, for the document being read, one entry for each identifier
\* allocated since the document was purged.
C13_GeneratorIsAdditive ==
  /\ [][(runs' = runs + 1 /\ calls' # <<>>) =>
          IF LastCommand'.hidden
          THEN /\ result'.nodes = <<>>
               /\ serialno' = serialno
               /\ all_click' = all_click
          ELSE /\ serialno' = serialno + 1
               /\ Len(result'.nodes) = 2
               /\ result'.nodes[1].tag = "target"
               /\ result'.nodes[1].ids = <<"click-", serialno>>
               /\ result'.nodes[2].tag = "paragraph"
               /\ \A i \in 1..Len(all_click) :
                    all_click[i].docname = docname
                    => all_click[i].target.ids # result'.nodes[1].ids
               /\ all_click'
                    = Append(all_click,
                             [docname |-> docname, lineno |-> lineno',
                              node |-> result'.nodes[2],
                              target |-> result'.nodes[1]])]_vars
  /\ [](Len(EntriesOf(all_click, docname)) = serialno)

C13_Witness ==
  /\ runs = 2
  /\ arguments = <<<<"pkg", ":", "hid">>>>
  /\ calls # <<>>
  /\ result.kind = "nodes" /\ result.nodes = <<>>
  /\ Len(all_click) = 1 /\ all_click[1].docname = docname
  /\ all_click[1].target.ids = <<"click-", 0>>
  /\ serialno = 1

\* The anchor lines (".. _label:") among some lines.
AnchorLines(lines) == SelectSeq(lines, LAMBDA l : l # <<>> /\ l[1] = ".. _")

\* The anchors of the build: those of every fragment the registry holds,
\* which are the fragments of the documents as they were last read.
BuildAnchors ==
  Flatten([i \in 1..Len(all_click) |-> AnchorLines(all_click[i].node.rawsource)])

\* The parameters of the last command that are bound to an environment
\* variable.
BoundParams == SelectSeq(LastCommand.params, LAMBDA x : Truthy(x.envvar))

\* C11: the fragment of a directive holds one anchor for each parameter bound
\* to an environment variable, made of the command path with hyphens for
\* spaces, the parameter's name and the variable's name, hyphens between
\* them; and no anchor occurs twice in the build, neither for two different
\* (command path, parameter, variable) triples nor in two renderings.
C11_AnchorsUnique ==
  /\ (runs > 0 /\ Loaded /\ result.kind = "nodes" /\ result.nodes # <<>>) =>
       AnchorLines(Content)
         = [i \in 1..Len(BoundParams) |->
              <<".. _">> \o replace(options.prog, " ", "-") \o <<"-">>
              \o BoundParams[i].name \o <<"-">> \o BoundParams[i].envvar \o <<":">>]
  /\ \A i, j \in 1..Len(BuildAnchors) : i # j => BuildAnchors[i] # BuildAnchors[j]

\* ------------------------------------------------ the description formatter
HelpAlphabet == {"h", "\\x08", "\\n", " "}

\* The help texts: None and every string of up to MaxHelpLen atoms.
HelpStrings == {None} \cup UNION {[1..n -> HelpAlphabet] : n \in 0..MaxHelpLen}

ShortHelps == {None, <<"sh">>, <<"\\x08", "\\n", "sh">>}

InitDescribe ==
  /\ pc = "ready"
  /\ \E h \in HelpStrings, sh \in ShortHelps :
       ctx = [command |-> [BaseCommand EXCEPT !.help = h, !.short_help = sh],
              info_name |-> <<"cli">>, parent |-> None]
  /\ nested = None
  /\ commands = None
  /\ output = <<>>
  /\ filtered = <<>>
  /\ opt = BaseParam
  /\ record = <<>>
  /\ IdleDirective

\* output = list(_format_description(ctx))
FormatDescription ==
  /\ pc = "ready"
  /\ output' = _format_description(ctx)
  /\ pc' = "done"
  /\ UNCHANGED <<ctx, nested, commands, filtered, opt, record, dirVars>>

NextDescribe == FormatDescription

SpecDescribe == InitDescribe /\ [][NextDescribe]_vars

\* The text that is formatted and its lines.
HelpString ==
  IF Truthy(ctx.command.help) THEN ctx.command.help ELSE ctx.command.short_help

HelpLines == string2lines(HelpString)

Backspace == <<"\\x08">>

\* Line i is read in the no-rewrap state: a backspace line precedes it with
\* no blank line in between.
NoRewrap(i) ==
  \E j \in 1..(i - 1) :
    /\ HelpLines[j] = Backspace
    /\ \A k \in (j + 1)..(i - 1) : HelpLines[k] # <<>>

\* The lines that are emitted: all but the backspace lines.
Kept == Ascending({i \in 1..Len(HelpLines) : HelpLines[i] # Backspace})

\* C12: without help and short help nothing is emitted; otherwise the output
\* is, for every line but the backspace lines and in their order, the line
\* with "| " in front when it is not blank and read in the no-rewrap state
\* (after a backspace line and before the next blank line) and the line
\* unchanged otherwise, followed by one blank line.
C12_DescriptionScan ==
  Done =>
    IF ~Truthy(HelpString) THEN output = <<>>
    ELSE /\ Len(output) = Len(Kept) + 1
         /\ output[Len(output)] = <<>>
         /\ \A k \in 1..Len(Kept) :
              output[k] = IF HelpLines[Kept[k]] # <<>> /\ NoRewrap(Kept[k])
                          THEN <<"| ">> \o HelpLines[Kept[k]]
                          ELSE HelpLines[Kept[k]]

C12_Witness ==
  /\ Done
  /\ ctx.command.help = <<"\\x08", "\\n", "h", "\\n", "\\n", "h">>
  /\ output = << <<"| ", "h">>, <<>>, <<"h">>, <<>> >>

\* ------------------------------------------------- the outdated documents
\* The directives of the builds: a group, a hidden command, a command with
\* environment variables and a module path without a colon.
BuildInputs ==
  {<<a, [NoOptions EXCEPT !.prog = <<"cli">>]>> :
     a \in {<<<<"pkg", ":", "cli">>>>, <<<<"pkg", ":", "hid">>>>,
            <<<<"pkg", ":", "env">>>>, <<<<"pkg">>>>}}

RunInBuild == Directive(BuildInputs)

\* A build starts: Sphinx emits env-get-outdated with the documents it found
\* added, changed and removed (setup connects env_get_outdated) and takes
\* the documents the hook returns as changed too.
GetOutdated ==
  /\ builds < MaxBuilds
  /\ \E added, changed, removed \in SUBSET Docs :
       outdated' = env_get_outdated(all_click, added, changed, removed)
  /\ builds' = builds + 1
  /\ UNCHANGED <<pc, fmtVars, docname, serialno, all_click, arguments, options,
                 lineno, result, calls, runs>>

NextBuild == RunInBuild \/ ReadDoc \/ GetOutdated

SpecBuild == InitDirective /\ [][NextBuild]_vars

\* C15: whatever documents the build found added, changed and removed, the
\* hook reports exactly the documents that have a node in the purge registry
\* when the build asks: on every build each document that registered a node
\* and was not purged since is reported, and a document without a
\* registered node is not.
C15_OutdatedDocuments ==
  [][builds' = builds + 1 =>
       \A d \in Docs :
         (\E i \in 1..Len(outdated') : outdated'[i] = d)
         <=> (\E i \in 1..Len(all_click) : all_click[i].docname = d)]_vars

C15_Witness ==
  /\ builds = 2
  /\ Len(all_click) = 1 /\ all_click[1].docname = "index"
  /\ docname = "usage"
  /\ outdated = <<"index">>

====
